---- MODULE Spec2Model ----
(***************************************************************************)
(* Model of neuralpredictors/layers/readouts/multi_readout.py:             *)
(* MultiReadoutBase (a torch.nn.ModuleDict of per-dataset readouts), its   *)
(* parameter-sharing variant MultiReadoutSharedParametersBase and the      *)
(* concrete classes that bind a base readout type.                         *)
(*                                                                         *)
(* One object is followed through its life: the call of __init__ (base     *)
(* readout resolution, the registration loop, the closing initialize) and, *)
(* once __init__ has returned, the calls a holder of the object can make   *)
(* (forward, regularizer, initialize, and add_module inherited from        *)
(* ModuleDict).  Python values are modelled as tagged records so that      *)
(* None, booleans, strings, dictionary items and attribute references stay *)
(* distinct.                                                               *)
(***************************************************************************)
EXTENDS Integers, Sequences, FiniteSets, TLC

\* ------------------------------------------------------------------ bounds
\* number of distinct dataset keys that exist
NumKeys == 2

KeyNames == <<"k1", "k2", "k3", "k4">>

DataKeys == {KeyNames[j] : j \in 1..NumKeys}

\* ------------------------------------------------------------ Python values
V(t, a, b, c) == [t |-> t, a |-> a, b |-> b, c |-> c]

None == V("None", "", "", "")

PyTrue == V("bool", "True", "", "")

PyFalse == V("bool", "False", "", "")

Str(s) == V("str", s, "", "")

\* an opaque value supplied by the caller for the option or argument `name`
Val(name) == V("val", name, "", "")

\* dict_name[data_key] of a per-key dictionary supplied by the caller
Item(dict_name, data_key) == V("item", dict_name, data_key, "")

\* self[owner].attr : an attribute of a registered sub-module
Attr(owner, attr) == V("attr", owner, attr, "")

\* {"match_ids": shared_match_ids[data_key], entry: shared} where shared is
\* "None" or the key `owner` standing for self[owner].<entry>
Descriptor(data_key, entry, shared) == V("dict", data_key, entry, shared)

\* Python truthiness of the option values used here
Truthy(v) == v # None /\ v # PyFalse

\* the data_key argument left at its default None
NoKey == "<None>"

\* a keyword argument that the caller did not pass
Omitted == "<omitted>"

\* ------------------------------------------------------- keyword dictionaries
EmptyKw == [n \in {} |-> None]

SetItem(kw, name, v) ==
    [n \in (DOMAIN kw) \cup {name} |-> IF n = name THEN v ELSE kw[n]]

DelItem(kw, name) == [n \in (DOMAIN kw) \ {name} |-> kw[n]]

Ok(kw) == [err |-> "none", msg |-> <<>>, kw |-> kw]

Fail(kind, msg) == [err |-> kind, msg |-> msg, kw |-> EmptyKw]

\* ------------------------------------------------------------------ classes
Classes == {"MultiReadoutBase", "MultiReadoutSharedParametersBase",
            "MultiplePointPooled2d", "MultipleSpatialXFeatureLinear",
            "MultipleFullSXF", "MultipleFullGaussian2d"}

\* the class attribute _base_readout
ClassBaseReadout(c) ==
    CASE c = "MultiplePointPooled2d" -> "PointPooled2d"
      [] c = "MultipleSpatialXFeatureLinear" -> "SpatialXFeatureLinear"
      [] c = "MultipleFullSXF" -> "FullSXF"
      [] c = "MultipleFullGaussian2d" -> "FullGaussian2d"
      [] OTHER -> "None"

\* classes that inherit MultiReadoutSharedParametersBase.prepare_readout_kwargs
IsSharedVariant(c) ==
    c \in {"MultiReadoutSharedParametersBase", "MultipleFullSXF",
           "MultipleFullGaussian2d"}

\* ------------------------------------------------- arguments of the call
\* n_neurons_dict, as the ordered list of its keys: every ordering of every
\* subset of the dataset keys (a dict has no duplicate keys)
KeyOrders ==
    {ks \in UNION {[1..n -> DataKeys] : n \in 0..NumKeys} :
        \A a, b \in DOMAIN ks : a # b => ks[a] # ks[b]}

\* the options a caller may pass to the parameter-sharing variant; "absent"
\* leaves the option out of **kwargs
Absent == V("absent", "", "", "")

OptionChoices ==
    [grid_mean_predictor |-> {Absent, None, Val("grid_mean_predictor")},
     grid_mean_predictor_type |-> {Absent, Str("cortex"), Str("fancy")},
     source_grids |-> {Absent, Val("source_grids")},
     share_transform |-> {Absent, PyTrue, PyFalse},
     share_grid |-> {Absent, PyTrue, PyFalse},
     share_features |-> {Absent, PyTrue, PyFalse},
     shared_match_ids |-> {Absent, Val("shared_match_ids")},
     init_mu_range |-> {Val("init_mu_range")}]

OptionNames == DOMAIN OptionChoices

Supplied(full) == [n \in {m \in OptionNames : full[m] # Absent} |-> full[n]]

SharedKwargs ==
    {Supplied([grid_mean_predictor |-> g, grid_mean_predictor_type |-> ty,
               source_grids |-> sg, share_transform |-> st, share_grid |-> sh,
               share_features |-> sf, shared_match_ids |-> ids,
               init_mu_range |-> mu]) :
        g \in OptionChoices.grid_mean_predictor,
        ty \in OptionChoices.grid_mean_predictor_type,
        sg \in OptionChoices.source_grids,
        st \in OptionChoices.share_transform,
        sh \in OptionChoices.share_grid,
        sf \in OptionChoices.share_features,
        ids \in OptionChoices.shared_match_ids,
        mu \in OptionChoices.init_mu_range}

\* the plain variant hands **kwargs on without reading them
PlainKwargs == {EmptyKw, Supplied([n \in OptionNames |->
                    IF n = "init_mu_range" THEN Val("init_mu_range") ELSE Absent])}

KwargsOf(c) == IF IsSharedVariant(c) THEN SharedKwargs ELSE PlainKwargs

\* mean_activity_dict: None, a dictionary with an entry for every dataset
\* key, or a dictionary with no entry for the keys used
MeanDicts == {"None", "full", "empty"}

MeanActivity(mean_activity_dict, data_key) ==
    IF mean_activity_dict = "None" THEN None
    ELSE Item("mean_activity_dict", data_key)

HasMean(mean_activity_dict, data_key) == mean_activity_dict # "empty"

NoArgs ==
    [keys |-> <<>>, base_readout |-> "None", mean_activity_dict |-> "None",
     clone_readout |-> FALSE, kwargs |-> EmptyKw]

\* --------------------------------------------------------------- the state
VARIABLES
    cls,        \* the class whose __init__ is called
    pc,         \* "new", "resolve", "loop", "done" (returned) or "raised"
    args,       \* the arguments of __init__, while its frame is alive
    base,       \* self._base_readout
    registry,   \* the ModuleDict: ordered <<[key, kind, source]>>
    i,          \* loop index of the registration loop
    first_data_key,
    original_readout,
    built,      \* every call of self._base_readout(...), in order
    initCalls,  \* every call readout.initialize(mean_activity), in order
    raised,     \* the exception that ended __init__, if any
    lastCall    \* the most recent method call on the object and its outcome

vars == <<cls, pc, args, base, registry, i, first_data_key, original_readout,
          built, initCalls, raised, lastCall>>

NoError == [err |-> "none", msg |-> <<>>, at |-> ""]

\* a call record: the method, len(self) and the arguments at the call, the
\* sub-module the call was routed to with the arguments handed to it, and
\* the exception raised, if any
NoCall ==
    [op |-> "", size |-> 0, data_key |-> "", given_reduction |-> "",
     given_average |-> "", mean_activity_dict |-> "", target |-> "",
     reduction |-> "", average |-> "", err |-> "none"]

Keys(reg) == {reg[j].key : j \in DOMAIN reg}

\* ------------------------------------------------ __init__, lines 41-47
\* mutant: the argument overrides the class attribute
ResolveBaseReadout_ArgumentWins(class_level, base_readout) ==
    IF base_readout # "None" THEN base_readout ELSE class_level

ResolveBaseReadout(class_level, base_readout) ==
    IF class_level = "None" THEN base_readout ELSE class_level

\* ------------------------- prepare_readout_kwargs of the sharing variant
FormatMessage(kind) == <<"grid mean predictor ", kind, " does not exist">>

ShareTransformStep(kw, idx, first) ==
    IF "share_transform" \notin DOMAIN kw
    THEN Fail("KeyError", <<"share_transform">>)
    ELSE IF Truthy(kw["share_transform"])
    THEN Ok(SetItem(kw, "shared_transform",
                    IF idx = 0 THEN None ELSE Attr(first, "mu_transform")))
    ELSE Ok(kw)

\* mutant: the predictor kind is not checked
PredictorBranch_AnyKind(kw, idx, data_key, first) ==
    IF "grid_mean_predictor_type" \notin DOMAIN kw
    THEN Fail("KeyError", <<"grid_mean_predictor_type">>)
    ELSE IF "source_grids" \notin DOMAIN kw
    THEN Fail("KeyError", <<"source_grids">>)
    ELSE ShareTransformStep(
             SetItem(kw, "source_grid", Item("source_grids", data_key)),
             idx, first)

PredictorBranch(kw, idx, data_key, first) ==
    IF "grid_mean_predictor_type" \notin DOMAIN kw
    THEN Fail("KeyError", <<"grid_mean_predictor_type">>)
    ELSE IF kw["grid_mean_predictor_type"] = Str("cortex")
    THEN IF "source_grids" \notin DOMAIN kw
         THEN Fail("KeyError", <<"source_grids">>)
         ELSE ShareTransformStep(
                  SetItem(kw, "source_grid", Item("source_grids", data_key)),
                  idx, first)
    ELSE Fail("KeyError", FormatMessage(kw["grid_mean_predictor_type"].a))

\* mutant: every key is treated as the anchor
SharedGridBranch_NoAnchor(kw, idx, data_key, first) ==
    IF "share_grid" \notin DOMAIN kw
    THEN Fail("KeyError", <<"share_grid">>)
    ELSE IF Truthy(kw["share_grid"])
    THEN IF "shared_match_ids" \notin DOMAIN kw
         THEN Fail("KeyError", <<"shared_match_ids">>)
         ELSE Ok(SetItem(kw, "shared_grid",
                         Descriptor(data_key, "shared_grid", "None")))
    ELSE Ok(kw)

SharedGridBranch(kw, idx, data_key, first) ==
    IF "share_grid" \notin DOMAIN kw
    THEN Fail("KeyError", <<"share_grid">>)
    ELSE IF Truthy(kw["share_grid"])
    THEN IF "shared_match_ids" \notin DOMAIN kw
         THEN Fail("KeyError", <<"shared_match_ids">>)
         ELSE Ok(SetItem(kw, "shared_grid",
                         Descriptor(data_key, "shared_grid",
                                    IF idx = 0 THEN "None" ELSE first)))
    ELSE Ok(kw)

\* mutant: share_grid is looked up but not deleted
ConsumeGridDirectives_KeepsShareGrid(kw) ==
    IF "share_transform" \notin DOMAIN kw
    THEN Fail("KeyError", <<"share_transform">>)
    ELSE IF "share_grid" \notin DOMAIN kw
    THEN Fail("KeyError", <<"share_grid">>)
    ELSE IF "grid_mean_predictor_type" \notin DOMAIN kw
    THEN Fail("KeyError", <<"grid_mean_predictor_type">>)
    ELSE Ok(DelItem(DelItem(kw, "share_transform"), "grid_mean_predictor_type"))

ConsumeGridDirectives(kw) ==
    IF "share_transform" \notin DOMAIN kw
    THEN Fail("KeyError", <<"share_transform">>)
    ELSE IF "share_grid" \notin DOMAIN kw
    THEN Fail("KeyError", <<"share_grid">>)
    ELSE IF "grid_mean_predictor_type" \notin DOMAIN kw
    THEN Fail("KeyError", <<"grid_mean_predictor_type">>)
    ELSE Ok(DelItem(DelItem(DelItem(kw, "share_transform"), "share_grid"),
                    "grid_mean_predictor_type"))

GridSection(kw, idx, data_key, first) ==
    IF "grid_mean_predictor" \notin DOMAIN kw
    THEN Ok(kw)
    ELSE LET r == IF kw["grid_mean_predictor"] # None
                  THEN PredictorBranch(kw, idx, data_key, first)
                  ELSE SharedGridBranch(kw, idx, data_key, first)
         IN  IF r.err # "none" THEN r ELSE ConsumeGridDirectives(r.kw)

\* mutant: the descriptor refers to the key's own sub-module, not the anchor's
FeaturesSection_OwnKey(kw, idx, data_key, first) ==
    IF "share_features" \notin DOMAIN kw
    THEN Ok(kw)
    ELSE IF Truthy(kw["share_features"])
    THEN IF "shared_match_ids" \notin DOMAIN kw
         THEN Fail("KeyError", <<"shared_match_ids">>)
         ELSE Ok(DelItem(SetItem(kw, "shared_features",
                                 Descriptor(data_key, "shared_features",
                                            IF idx = 0 THEN "None" ELSE data_key)),
                         "share_features"))
    ELSE Ok(DelItem(SetItem(kw, "shared_features", None), "share_features"))

FeaturesSection(kw, idx, data_key, first) ==
    IF "share_features" \notin DOMAIN kw
    THEN Ok(kw)
    ELSE IF Truthy(kw["share_features"])
    THEN IF "shared_match_ids" \notin DOMAIN kw
         THEN Fail("KeyError", <<"shared_match_ids">>)
         ELSE Ok(DelItem(SetItem(kw, "shared_features",
                                 Descriptor(data_key, "shared_features",
                                            IF idx = 0 THEN "None" ELSE first)),
                         "share_features"))
    ELSE Ok(DelItem(SetItem(kw, "shared_features", None), "share_features"))

SharedPrepare(kw, idx, data_key, first) ==
    LET r == GridSection(kw, idx, data_key, first)
    IN  IF r.err # "none" THEN r ELSE FeaturesSection(r.kw, idx, data_key, first)

prepare_readout_kwargs(c, kw, idx, data_key, first) ==
    IF IsSharedVariant(c) THEN SharedPrepare(kw, idx, data_key, first) ELSE Ok(kw)

\* ------------------------------------------------------- the ModuleDict
\* add_module(name, module): a new name is appended, a known one replaced
AddModule(reg, k, kind, source) ==
    LET m == [key |-> k, kind |-> kind, source |-> source]
    IN  IF k \in Keys(reg)
        THEN [j \in DOMAIN reg |-> IF reg[j].key = k THEN m ELSE reg[j]]
        ELSE Append(reg, m)

\* self[k]
GetItem(reg, k) ==
    IF k \in Keys(reg)
    THEN [err |-> "none", key |-> k]
    ELSE [err |-> "KeyError", key |-> ""]

\* line 55: a new readout is constructed for this key (else line 67: a clone)
ConstructsReadout(idx, clone_readout) == idx = 0 \/ clone_readout = FALSE

\* ---------------------------------------------------- forward, regularizer
\* mutant: the sole key is not filled in
ResolveKey_NoDefault(reg, data_key) == data_key

ResolveKey(reg, data_key) ==
    IF data_key = NoKey /\ Len(reg) = 1 THEN reg[1].key ELSE data_key

DefaultTo(given, default) == IF given = Omitted THEN default ELSE given

\* forward passes no reduction and no average; regularizer defaults them
\* to "sum" and None (line 85)
Dispatch(reg, op, data_key, reduction, average) ==
    LET got == GetItem(reg, ResolveKey(reg, data_key))
        routed == got.err = "none" /\ op = "regularizer"
    IN  [op |-> op, size |-> Len(reg), data_key |-> data_key,
         given_reduction |-> reduction, given_average |-> average,
         mean_activity_dict |-> "", target |-> got.key,
         reduction |-> IF routed THEN DefaultTo(reduction, "sum") ELSE "",
         average |-> IF routed THEN DefaultTo(average, "None") ELSE "",
         err |-> got.err]

InitializeCall(reg, mean_activity_dict, r) ==
    [NoCall EXCEPT !.op = "initialize", !.size = Len(reg),
                   !.mean_activity_dict = mean_activity_dict, !.err = r.err]

\* -------------------------------------------------------------- initialize
\* line 81: `for data_key, readout in self.values()` unpacks each value, a
\* sub-module, into two names; a torch Module is not iterable
UnpackPair(module) == [err |-> "TypeError", data_key |-> "", readout |-> ""]

RECURSIVE InitializeFrom(_, _, _, _)
InitializeFrom(reg, j, mean_activity_dict, calls) ==
    IF j > Len(reg)
    THEN [err |-> "none", calls |-> calls]
    ELSE LET u == UnpackPair(reg[j])
         IN  IF u.err # "none"
             THEN [err |-> u.err, calls |-> calls]
             ELSE IF ~HasMean(mean_activity_dict, u.data_key)
             THEN [err |-> "KeyError", calls |-> calls]
             ELSE InitializeFrom(reg, j + 1, mean_activity_dict,
                      Append(calls,
                             [readout |-> u.readout,
                              mean_activity |->
                                  MeanActivity(mean_activity_dict, u.data_key)]))

Init ==
    /\ cls \in Classes
    /\ pc = "new"
    /\ args = NoArgs
    /\ base = ClassBaseReadout(cls)
    /\ registry = <<>>
    /\ i = 0
    /\ first_data_key = ""
    /\ original_readout = ""
    /\ built = <<>>
    /\ initCalls = <<>>
    /\ raised = NoError
    /\ lastCall = NoCall


\* ------------------------------------------------------------ the actions
\* cls(in_shape_dict, n_neurons_dict, base_readout, mean_activity_dict,
\*     clone_readout, **kwargs) is called
Enter ==
    /\ pc = "new"
    /\ \E ks \in KeyOrders, b \in {"None", "CustomReadout"}, m \in MeanDicts,
          c \in BOOLEAN, kw \in KwargsOf(cls) :
          args' = [keys |-> ks, base_readout |-> b, mean_activity_dict |-> m,
                   clone_readout |-> c, kwargs |-> kw]
    /\ pc' = "resolve"
    /\ UNCHANGED <<cls, base, registry, i, first_data_key, original_readout,
                   built, initCalls, raised, lastCall>>

\* lines 41-47
ResolveBase ==
    /\ pc = "resolve"
    /\ base' = ResolveBaseReadout(ClassBaseReadout(cls), args.base_readout)
    /\ IF base' = "None"
       THEN /\ raised' = [err |-> "ValueError",
                          msg |-> <<"Attribute _base_readout must be set">>,
                          at |-> "resolve"]
            /\ pc' = "raised"
       ELSE /\ raised' = raised
            /\ pc' = "loop"
    /\ registry' = <<>>
    /\ i' = 0
    /\ UNCHANGED <<cls, args, first_data_key, original_readout, built,
                   initCalls, lastCall>>

\* lines 49-68, one pass of the loop body
RegisterNext ==
    /\ pc = "loop"
    /\ i < Len(args.keys)
    /\ LET data_key == args.keys[i + 1]
           first == IF i = 0 THEN data_key ELSE first_data_key
           r == prepare_readout_kwargs(cls, args.kwargs, i, data_key, first)
       IN  /\ first_data_key' = first
           /\ IF ~HasMean(args.mean_activity_dict, data_key)
              THEN /\ raised' = [err |-> "KeyError", msg |-> <<data_key>>,
                                 at |-> "mean_activity"]
                   /\ pc' = "raised"
                   /\ UNCHANGED <<registry, i, original_readout, built>>
              ELSE IF r.err # "none"
              THEN /\ raised' = [err |-> r.err, msg |-> r.msg,
                                 at |-> "prepare_readout_kwargs"]
                   /\ pc' = "raised"
                   /\ UNCHANGED <<registry, i, original_readout, built>>
              ELSE IF ConstructsReadout(i, args.clone_readout)
              THEN /\ built' = Append(built,
                           [type |-> base, data_key |-> data_key,
                            in_shape |-> Item("in_shape_dict", data_key),
                            outdims |-> Item("n_neurons_dict", data_key),
                            mean_activity |->
                                MeanActivity(args.mean_activity_dict, data_key),
                            reg_weight |-> Val("gamma_readout"),
                            kwargs |-> r.kw])
                   /\ registry' = AddModule(registry, data_key, "readout", "")
                   /\ original_readout' = data_key
                   /\ i' = i + 1
                   /\ UNCHANGED <<pc, raised>>
              ELSE /\ registry' = AddModule(registry, data_key, "clone",
                                            original_readout)
                   /\ i' = i + 1
                   /\ UNCHANGED <<pc, raised, original_readout, built>>
    /\ UNCHANGED <<cls, args, base, initCalls, lastCall>>

\* line 70, the closing self.initialize(mean_activity_dict), then the return
CloseInit ==
    /\ pc = "loop"
    /\ i = Len(args.keys)
    /\ LET r == InitializeFrom(registry, 1, args.mean_activity_dict, <<>>)
       IN  /\ initCalls' = initCalls \o r.calls
           /\ lastCall' = InitializeCall(registry, args.mean_activity_dict, r)
           /\ IF r.err = "none"
              THEN /\ pc' = "done"
                   /\ args' = NoArgs
                   /\ i' = 0
                   /\ first_data_key' = ""
                   /\ original_readout' = ""
                   /\ raised' = raised
              ELSE /\ pc' = "raised"
                   /\ raised' = [err |-> r.err, msg |-> <<>>, at |-> "initialize"]
                   /\ UNCHANGED <<args, i, first_data_key, original_readout>>
    /\ UNCHANGED <<cls, base, registry, built>>

\* the holder of the object registers a further readout (ModuleDict API)
Register ==
    /\ pc = "done"
    /\ \E k \in DataKeys \ Keys(registry) :
          registry' = AddModule(registry, k, "readout", "")
    /\ UNCHANGED <<cls, pc, args, base, i, first_data_key, original_readout,
                   built, initCalls, raised, lastCall>>

\* lines 75-78
Forward ==
    /\ pc = "done"
    /\ \E data_key \in DataKeys \cup {NoKey} :
          lastCall' = Dispatch(registry, "forward", data_key, Omitted, Omitted)
    /\ UNCHANGED <<cls, pc, args, base, registry, i, first_data_key,
                   original_readout, built, initCalls, raised>>

\* lines 85-88
Regularizer ==
    /\ pc = "done"
    /\ \E data_key \in DataKeys \cup {NoKey},
          reduction \in {Omitted, "sum", "mean"},
          average \in {Omitted, "True"} :
          lastCall' = Dispatch(registry, "regularizer", data_key,
                               reduction, average)
    /\ UNCHANGED <<cls, pc, args, base, registry, i, first_data_key,
                   original_readout, built, initCalls, raised>>

\* lines 80-83, called again on the constructed object
Initialize ==
    /\ pc = "done"
    /\ \E m \in MeanDicts :
          LET r == InitializeFrom(registry, 1, m, <<>>)
          IN  /\ initCalls' = r.calls
              /\ lastCall' = InitializeCall(registry, m, r)
    /\ UNCHANGED <<cls, pc, args, base, registry, i, first_data_key,
                   original_readout, built, raised>>

Next ==
    \/ Enter
    \/ ResolveBase
    \/ RegisterNext
    \/ CloseInit
    \/ Register
    \/ Forward
    \/ Regularizer
    \/ Initialize

Spec == Init /\ [][Next]_vars

\* =================================================================== claims
\* the frame of __init__ is alive: args may be read
InFrame == pc \in {"resolve", "loop", "raised"}

\* __init__ is through the registration loop (about to close, or failed closing)
LoopThrough ==
    \/ pc = "loop" /\ i = Len(args.keys)
    \/ pc = "raised" /\ raised.at = "initialize"

IsDispatch(call) == call.op \in {"forward", "regularizer"}

\* ---- C1
\* C1 (as claimed): on a registry of two or more sub-modules, forward and
\* regularizer without a data key fail with the configuration error that
\* construction raises (ValueError) and route to no sub-module.
C1_Claim ==
    (IsDispatch(lastCall) /\ lastCall.data_key = NoKey /\ lastCall.size >= 2)
        => (lastCall.err = "ValueError" /\ lastCall.target = "")

\* ---- C2
\* C2: on a registry of exactly one sub-module, forward and regularizer
\* without a data key succeed, are routed to that sub-module and give what
\* the call with that key gives; regularizer hands on the given reduction
\* ("sum" when omitted) and average (None when omitted).
C2_SoleKeyDispatch ==
    (IsDispatch(lastCall) /\ lastCall.data_key = NoKey /\ lastCall.size = 1)
        => /\ lastCall.err = "none"
           /\ lastCall.target = registry[1].key
           /\ [lastCall EXCEPT !.data_key = registry[1].key]
                  = Dispatch(<<registry[1]>>, lastCall.op, registry[1].key,
                             lastCall.given_reduction, lastCall.given_average)
           /\ lastCall.op = "regularizer"
                  => /\ lastCall.reduction =
                            IF lastCall.given_reduction = Omitted THEN "sum"
                            ELSE lastCall.given_reduction
                     /\ lastCall.average =
                            IF lastCall.given_average = Omitted THEN "None"
                            ELSE lastCall.given_average

C2_Witness ==
    /\ lastCall.op = "regularizer"
    /\ lastCall.data_key = NoKey
    /\ lastCall.size = 1
    /\ lastCall.given_reduction = "mean"
    /\ lastCall.target = "k2"

\* ---- C3
\* C3 (as claimed): initialize, closing construction or called again, calls
\* initialize once on every registered sub-module with the mean activity
\* stored under that sub-module's key (None without a map), and raises
\* nothing on a registry of one or more keys.
C3_Claim ==
    (lastCall.op = "initialize" /\ lastCall.size >= 1
     /\ lastCall.mean_activity_dict # "empty")
        => /\ lastCall.err = "none"
           /\ initCalls =
                  [j \in 1..lastCall.size |->
                      [readout |-> registry[j].key,
                       mean_activity |->
                           MeanActivity(lastCall.mean_activity_dict,
                                        registry[j].key)]]

\* ---- C4
\* C4 (as claimed): construction with N >= 2 keys and cloning disabled ends
\* without error with exactly N registered sub-modules, in the order of the
\* keys, each constructed from the base readout type with its own key's
\* input shape, neuron count and mean activity.
C4_Claim ==
    (LoopThrough /\ Len(args.keys) >= 2 /\ ~args.clone_readout)
        => /\ raised.err = "none"
           /\ registry = [j \in 1..Len(args.keys) |->
                             [key |-> args.keys[j], kind |-> "readout",
                              source |-> ""]]
           /\ Len(built) = Len(args.keys)
           /\ \A j \in 1..Len(built) :
                 /\ built[j].type = base
                 /\ built[j].data_key = args.keys[j]
                 /\ built[j].in_shape = Item("in_shape_dict", args.keys[j])
                 /\ built[j].outdims = Item("n_neurons_dict", args.keys[j])
                 /\ built[j].mean_activity =
                        MeanActivity(args.mean_activity_dict, args.keys[j])

\* ---- C5
\* C5 (as claimed): construction with cloning enabled ends without error
\* with the first key owning the only constructed readout and every later
\* key registered as a clone of the first key's sub-module.
C5_Claim ==
    (LoopThrough /\ Len(args.keys) >= 1 /\ args.clone_readout)
        => /\ raised.err = "none"
           /\ Len(built) = 1
           /\ Len(registry) = Len(args.keys)
           /\ registry[1] = [key |-> args.keys[1], kind |-> "readout",
                             source |-> ""]
           /\ \A j \in 2..Len(registry) :
                 registry[j] = [key |-> args.keys[j], kind |-> "clone",
                                source |-> args.keys[1]]

\* ---- C6
\* C6: construction fails with ValueError exactly when neither the class
\* attribute _base_readout nor the base_readout argument is set, and then
\* nothing has been constructed or registered; a set class attribute is the
\* type every readout is constructed from, whatever the argument.
C6_BaseReadoutResolution ==
    /\ pc \in {"loop", "raised"}
           => ((raised.err = "ValueError")
                   <=> (ClassBaseReadout(cls) = "None"
                        /\ args.base_readout = "None"))
    /\ raised.err = "ValueError"
           => (raised.at = "resolve" /\ registry = <<>> /\ built = <<>>)
    /\ pc \in {"loop", "done"} => base # "None"
    /\ \A j \in DOMAIN built :
           /\ built[j].type # "None"
           /\ ClassBaseReadout(cls) # "None"
                  => built[j].type = ClassBaseReadout(cls)

C6_Witness ==
    /\ ClassBaseReadout(cls) = "PointPooled2d"
    /\ InFrame
    /\ args.base_readout = "CustomReadout"
    /\ Len(built) = 2
    /\ built[2].type = "PointPooled2d"

\* ---- C7
UnknownPredictorKind(kw) ==
    /\ "grid_mean_predictor" \in DOMAIN kw
    /\ kw["grid_mean_predictor"] # None
    /\ "grid_mean_predictor_type" \in DOMAIN kw
    /\ kw["grid_mean_predictor_type"] # Str("cortex")

PredictorKindError(kw) ==
    [err |-> "KeyError",
     msg |-> <<"grid mean predictor ", kw["grid_mean_predictor_type"].a,
               " does not exist">>,
     at |-> "prepare_readout_kwargs"]

\* C7 (as claimed): in the sharing variant, with grid_mean_predictor set
\* and a grid_mean_predictor_type other than "cortex", construction fails
\* with a KeyError naming that type while resolving the first key's
\* options, so that nothing is registered.
C7_Claim ==
    [][(IsSharedVariant(cls) /\ pc = "loop" /\ UnknownPredictorKind(args.kwargs))
           => /\ pc' = "raised"
              /\ raised' = PredictorKindError(args.kwargs)
              /\ i = 0
              /\ registry' = <<>>]_vars

\* C7 (amended): the same, for a construction that supplies at least one
\* dataset key and, when it supplies a mean-activity map, an entry for the
\* first key.
C7_UnknownPredictorKindFails ==
    [][(/\ IsSharedVariant(cls)
        /\ pc = "loop"
        /\ UnknownPredictorKind(args.kwargs)
        /\ Len(args.keys) >= 1
        /\ HasMean(args.mean_activity_dict, args.keys[1]))
           => /\ pc' = "raised"
              /\ raised' = PredictorKindError(args.kwargs)
              /\ i = 0
              /\ registry' = <<>>
              /\ built' = <<>>]_vars

C7_Witness ==
    /\ pc = "raised"
    /\ raised.at = "prepare_readout_kwargs"
    /\ raised.msg = <<"grid mean predictor ", "fancy", " does not exist">>
    /\ Len(args.keys) = 2
    /\ registry = <<>>

\* ---- C8
Option(kw, name) == IF name \in DOMAIN kw THEN kw[name] ELSE Absent

\* the key of the anchor (first) sub-module as the j-th constructed readout
\* must refer to it: none for the anchor itself
AnchorFor(j) == IF j = 1 THEN "None" ELSE args.keys[1]

\* C8: in the sharing variant the options of every constructed readout
\* lack the share_features flag; with share_features true they carry a
\* shared_features descriptor with the key's own match ids and the anchor's
\* shared features (none for the anchor), with share_features false they
\* carry shared_features = None.
C8_SharedFeaturesDescriptor ==
    (IsSharedVariant(cls) /\ "share_features" \in DOMAIN args.kwargs)
        => \A j \in DOMAIN built :
               /\ "share_features" \notin DOMAIN built[j].kwargs
               /\ Option(built[j].kwargs, "shared_features") =
                      IF args.kwargs["share_features"] = PyTrue
                      THEN Descriptor(built[j].data_key, "shared_features",
                                      AnchorFor(j))
                      ELSE None

C8_Witness ==
    /\ IsSharedVariant(cls)
    /\ Len(built) = 2
    /\ Option(args.kwargs, "share_features") = PyTrue
    /\ Option(built[2].kwargs, "shared_features") =
           Descriptor(args.keys[2], "shared_features", args.keys[1])

\* ---- C9
SharedGridExpected(j) ==
    Descriptor(built[j].data_key, "shared_grid", AnchorFor(j))

\* C9 (as claimed): in the sharing variant, with share_grid true and
\* grid_mean_predictor null or not supplied, the options of every
\* constructed readout carry the shared_grid descriptor.
C9_Claim ==
    (/\ IsSharedVariant(cls)
     /\ Option(args.kwargs, "share_grid") = PyTrue
     /\ Option(args.kwargs, "grid_mean_predictor") \in {None, Absent})
        => \A j \in DOMAIN built :
               Option(built[j].kwargs, "shared_grid") = SharedGridExpected(j)

\* C9 (amended): the descriptor is produced when grid_mean_predictor is
\* supplied with the value None; when the option is not supplied at all no
\* shared_grid option is produced and share_grid reaches the constructor.
C9_SharedGridDescriptor ==
    (IsSharedVariant(cls) /\ Option(args.kwargs, "share_grid") = PyTrue)
        => \A j \in DOMAIN built :
               /\ Option(args.kwargs, "grid_mean_predictor") = None
                      => Option(built[j].kwargs, "shared_grid")
                             = SharedGridExpected(j)
               /\ Option(args.kwargs, "grid_mean_predictor") = Absent
                      => /\ "shared_grid" \notin DOMAIN built[j].kwargs
                         /\ Option(built[j].kwargs, "share_grid") = PyTrue

C9_Witness ==
    /\ IsSharedVariant(cls)
    /\ Len(built) = 2
    /\ Option(args.kwargs, "grid_mean_predictor") = None
    /\ Option(built[2].kwargs, "shared_grid") =
           Descriptor(args.keys[2], "shared_grid", args.keys[1])

\* ---- C10
GridDirectives == {"grid_mean_predictor_type", "share_transform", "share_grid"}

Directives == GridDirectives \cup {"share_features"}

PassedUnchanged(j) ==
    \A n \in (DOMAIN args.kwargs) \ Directives :
        /\ n \in DOMAIN built[j].kwargs
        /\ built[j].kwargs[n] = args.kwargs[n]

\* C10 (as claimed): in the sharing variant the options of a constructed
\* readout never contain grid_mean_predictor_type, share_transform or
\* share_grid, and every other supplied option that is no directive is
\* among them unchanged.
C10_Claim ==
    IsSharedVariant(cls)
        => \A j \in DOMAIN built :
               /\ GridDirectives \cap DOMAIN built[j].kwargs = {}
               /\ PassedUnchanged(j)

\* C10 (amended): the three directives are removed when a
\* grid_mean_predictor option was supplied; when none was supplied they
\* reach the constructor as supplied; every other supplied option that is no
\* directive is among the constructor's options unchanged.
C10_DirectivesConsumed ==
    IsSharedVariant(cls)
        => \A j \in DOMAIN built :
               /\ "grid_mean_predictor" \in DOMAIN args.kwargs
                      => GridDirectives \cap DOMAIN built[j].kwargs = {}
               /\ "grid_mean_predictor" \notin DOMAIN args.kwargs
                      => \A n \in GridDirectives \cap DOMAIN args.kwargs :
                             Option(built[j].kwargs, n) = args.kwargs[n]
               /\ PassedUnchanged(j)

C10_Witness ==
    /\ IsSharedVariant(cls)
    /\ Len(built) = 2
    /\ "grid_mean_predictor" \in DOMAIN args.kwargs
    /\ GridDirectives \subseteq DOMAIN args.kwargs
    /\ "init_mu_range" \in DOMAIN built[2].kwargs

====
